---- MODULE Spec2Model ----
(***************************************************************************)
(* State-machine model of satflow's nowcasting models:                     *)
(*   - NowcastingGAN            (src/satflow/models/nowcasting_gan.py)     *)
(*   - EncoderDecoderConvLSTM   (src/satflow/models/conv_lstm.py)          *)
(* Each public method is an action driven by an external training driver.  *)
(* Tensors are abstracted to small integer arrays; sub-networks whose code *)
(* lives outside these files are opaque and their outputs are inputs of    *)
(* the actions.  Python exceptions are modelled as outcomes of a call.     *)
(***************************************************************************)
EXTENDS Integers, Sequences, FiniteSets, TLC

VARIABLES gan, gout, lstm, fr, lout

vars == <<gan, gout, lstm, fr, lout>>
ganVars == <<gan, gout>>
lstmVars == <<lstm, fr, lout>>

(***************************************************************************)
(* Bounds of the model                                                     *)
(***************************************************************************)
MaxLoss == 1          \* stubbed discriminator / regularizer outputs 0..MaxLoss
MaxLambda == 0        \* grid_lambda values 0..MaxLambda besides the default
MaxCfgVal == 1        \* values 1..MaxCfgVal of the keys of a config mapping
MaxHidden == 2        \* hidden and cell states take the values 0..MaxHidden
MaxTin == 2           \* input sequences hold 0..MaxTin frames
MaxSteps == 2         \* forecast horizons 0..MaxSteps
MaxChannels == 2      \* out_channels 1..MaxChannels

(***************************************************************************)
(* Program constants                                                       *)
(***************************************************************************)
DefaultGridLambda == 20
DefaultNumSamples == 6
DefaultGanForecastSteps == 12

(***************************************************************************)
(* Python call outcomes                                                    *)
(***************************************************************************)
NoLogs == {}

\* Outcome record of a NowcastingGAN call.  `prev` is a history field: the
\* phase of the call before a training_step call.
GOut(op, kind, exc, idx, phase, loss, logs, created, value, stubs) ==
  [op |-> op, kind |-> kind, exc |-> exc, idx |-> idx, phase |-> phase,
   loss |-> loss, logs |-> logs, created |-> created, value |-> value,
   stubs |-> stubs, prev |-> ""]

NoStubs == <<0, 0, 0>>
GOutNone == GOut("none", "none", "", -1, "", 0, NoLogs, {}, "", NoStubs)

(***************************************************************************)
(* NowcastingGAN: constructor                                              *)
(***************************************************************************)
\* Keyword parameters __init__ accepts (besides self).
GANParams ==
  {"forecast_steps", "input_channels", "output_shape", "hidden_dim", "bilinear",
   "gen_lr", "disc_lr", "make_vis", "loss", "pretrained", "conv_type",
   "num_samples", "grid_lambda", "beta1", "beta2"}

\* Parameters without a default.
GANRequired == {"forecast_steps"}

\* Attributes __init__ assigns on self.
GANInitAttrs ==
  {"gen_lr", "disc_lr", "beta1", "beta2", "criterion", "discriminator_loss",
   "grid_regularizer", "grid_lambda", "num_samples", "make_vis",
   "input_channels", "conditioning_stack", "latent_stack", "sampler",
   "temporal_discriminator", "spatial_discriminator"}

\* Methods the class body defines.
GANMethods ==
  {"__init__", "from_config", "forward", "training_step", "validation_step",
   "configure_optimizers"}

\* Members inherited from pl.LightningModule that the class uses.
LightningModuleAPI == {"log_dict", "save_hyperparameters", "parameters"}

\* Names the methods read on self that neither __init__ nor the class nor the
\* base class defines; only an assignment from outside can provide them.
GANForeignAttrs ==
  {"b1", "b2", "generator", "discriminator", "lr_method", "lr_epochs",
   "visualize_step"}

NoGAN ==
  [built |-> FALSE, attrs |-> {}, grid_lambda |-> 0, num_samples |-> 0,
   lr_method |-> ""]

\* Value of keyword `name`, or the parameter's default.
Arg(kwargs, name, default) ==
  IF name \in DOMAIN kwargs THEN kwargs[name] ELSE default

\* self.<name> : attribute lookup (instance, class, base class).
HasAttr(self, name) ==
  name \in self.attrs \cup GANMethods \cup LightningModuleAPI

\* NowcastingGAN(**kwargs): Python's keyword binding, then the body of __init__.
GANInit(kwargs) ==
  IF ~(DOMAIN kwargs \subseteq GANParams)
  THEN [kind |-> "raise", exc |-> "TypeError", obj |-> NoGAN]
  ELSE IF ~(GANRequired \subseteq DOMAIN kwargs)
  THEN [kind |-> "raise", exc |-> "TypeError", obj |-> NoGAN]
  ELSE [kind |-> "return", exc |-> "",
        obj |-> [built |-> TRUE, attrs |-> GANInitAttrs,
                 grid_lambda |-> Arg(kwargs, "grid_lambda", DefaultGridLambda),
                 num_samples |-> Arg(kwargs, "num_samples", DefaultNumSamples),
                 lr_method |-> ""]]

(***************************************************************************)
(* NowcastingGAN: from_config                                              *)
(***************************************************************************)
\* config.get(key, default)
Get(config, key, default) ==
  IF key \in DOMAIN config THEN config[key] ELSE default

\* Keyword arguments from_config passes to the constructor.  bilinear=False
\* is 0 and lr is counted in units of 0.001.
GANFromConfigKwargs(config) ==
  [forecast_steps |-> Get(config, "forecast_steps", 12),
   input_channels |-> Get(config, "in_channels", 12),
   hidden_dim |-> Get(config, "features", 64),
   num_layers |-> Get(config, "num_layers", 5),
   bilinear |-> Get(config, "bilinear", 0),
   lr |-> Get(config, "lr", 1)]

GANFromConfig(config) == GANInit(GANFromConfigKwargs(config))

(***************************************************************************)
(* NowcastingGAN: training_step                                            *)
(***************************************************************************)
\* Faulty variant: the phase alternates from the previous call's phase.
SelectPhaseAlternating(optimizer_idx) ==
  IF gout.phase = "GENERATOR_UPDATE" THEN "DISCRIMINATOR_UPDATE"
  ELSE "GENERATOR_UPDATE"

\* The branch training_step takes for an optimizer index.
SelectPhase(optimizer_idx) ==
  IF optimizer_idx = 0 THEN "GENERATOR_UPDATE"
  ELSE IF optimizer_idx = 1 THEN "DISCRIMINATOR_UPDATE"
  ELSE "NONE"

\* g_loss = spatial_loss + temporal_loss - (self.grid_lambda * grid_loss)
GeneratorLoss(self, spatial_loss, temporal_loss, grid_loss) ==
  spatial_loss + temporal_loss - (self.grid_lambda * grid_loss)

\* Faulty variant: the generator's composite copied into the discriminator branch.
DiscriminatorLossWithGrid(self, spatial_loss, temporal_loss, grid_loss) ==
  spatial_loss + temporal_loss - (self.grid_lambda * grid_loss)

\* d_loss = spatial_loss + temporal_loss
DiscriminatorLoss(self, spatial_loss, temporal_loss, grid_loss) ==
  spatial_loss + temporal_loss

\* self(images): forward reads the three generator sub-networks.
ForwardAttrs == {"conditioning_stack", "latent_stack", "sampler"}

\* The num_samples forward passes and torch.cat / torch.mean over them:
\* torch.cat of an empty list raises.
MeanPredictionFails(self) == self.num_samples = 0

TSRaise(exc, idx, phase, stubs) ==
  GOut("training_step", "raise", exc, idx, phase, 0, NoLogs, {}, "", NoStubs)

\* Outcome of training_step(batch, batch_idx, optimizer_idx) with the
\* discriminators' and the regularizer's outputs s, t, g.
TrainingStepOutcome(self, optimizer_idx, s, t, g) ==
  LET phase == SelectPhase(optimizer_idx)
      stubs == <<s, t, g>>
  IN  IF phase = "GENERATOR_UPDATE"
      THEN IF ~(\A a \in ForwardAttrs : HasAttr(self, a))
           THEN TSRaise("AttributeError", optimizer_idx, phase, stubs)
           ELSE IF ~HasAttr(self, "visualize_step")
           THEN TSRaise("AttributeError", optimizer_idx, phase, stubs)
           ELSE IF MeanPredictionFails(self)
           THEN TSRaise("RuntimeError", optimizer_idx, phase, stubs)
           ELSE LET g_loss == GeneratorLoss(self, s, t, g)
                IN  GOut("training_step", "return", "", optimizer_idx, phase,
                         g_loss, {<<"train/g_loss", g_loss>>}, {}, "dict", stubs)
      ELSE IF phase = "DISCRIMINATOR_UPDATE"
      THEN IF ~(\A a \in ForwardAttrs : HasAttr(self, a))
           THEN TSRaise("AttributeError", optimizer_idx, phase, stubs)
           ELSE IF MeanPredictionFails(self)
           THEN TSRaise("RuntimeError", optimizer_idx, phase, stubs)
           ELSE LET d_loss == DiscriminatorLoss(self, s, t, g)
                IN  GOut("training_step", "return", "", optimizer_idx, phase,
                         d_loss,
                         {<<"train/d_loss", d_loss>>,
                          <<"train/temporal_loss", t>>,
                          <<"train/spatial_loss", s>>},
                         {}, "dict", stubs)
      ELSE GOut("training_step", "return", "", optimizer_idx, phase, 0, NoLogs,
                {}, "None", NoStubs)

\* Fields of self after training_step: the method assigns nothing on self.
TrainingStepSelf(self, optimizer_idx) == self

(***************************************************************************)
(* NowcastingGAN: configure_optimizers                                     *)
(***************************************************************************)
CORaise(exc, created) ==
  GOut("configure_optimizers", "raise", exc, -1, "", 0, NoLogs, created, "",
       NoStubs)

COReturn(value, created) ==
  GOut("configure_optimizers", "return", "", -1, "", 0, NoLogs, created, value,
       NoStubs)

\* The statements of configure_optimizers in order; `created` is the set of
\* optimizers and schedulers constructed so far.
ConfigureOptimizersOutcome(self) ==
  IF ~HasAttr(self, "b1") \/ ~HasAttr(self, "b2")
  THEN CORaise("AttributeError", {})
  ELSE IF ~HasAttr(self, "generator") \/ ~HasAttr(self, "gen_lr")
  THEN CORaise("AttributeError", {})
  ELSE IF ~HasAttr(self, "discriminator") \/ ~HasAttr(self, "disc_lr")
  THEN CORaise("AttributeError", {"opt_g"})
  ELSE IF ~HasAttr(self, "lr_method")
  THEN CORaise("AttributeError", {"opt_g", "opt_d"})
  ELSE IF self.lr_method = "plateau"
  THEN COReturn("optimizers+ReduceLROnPlateau",
                {"opt_g", "opt_d", "g_scheduler", "d_scheduler"})
  ELSE IF self.lr_method = "cosine"
  THEN IF ~HasAttr(self, "lr_epochs")
       THEN CORaise("AttributeError", {"opt_g", "opt_d"})
       ELSE COReturn("optimizers+CosineAnnealingLR",
                     {"opt_g", "opt_d", "g_scheduler", "d_scheduler"})
  ELSE COReturn("NotImplementedError", {"opt_g", "opt_d"})

(***************************************************************************)
(* NowcastingGAN: actions                                                  *)
(***************************************************************************)
LossVals == 0 .. MaxLoss
LambdaVals == 0 .. MaxLambda
SampleCounts == {0, DefaultNumSamples}
OptimizerIdxs == {0, 1, 2}
LrMethods == {"plateau", "cosine", "step"}

\* Keyword sets the driver constructs the model with.
GANDriverKeys == {"forecast_steps", "grid_lambda", "num_samples"}

\* Values the driver passes for a keyword.
GANKwVals(k) ==
  IF k = "grid_lambda" THEN LambdaVals \cup {DefaultGridLambda}
  ELSE IF k = "num_samples" THEN SampleCounts
  ELSE {DefaultGanForecastSteps}

GANKwargs ==
  UNION {{kw \in [K -> LambdaVals \cup SampleCounts
                           \cup {DefaultGridLambda, DefaultGanForecastSteps}] :
            \A k \in K : kw[k] \in GANKwVals(k)} : K \in SUBSET GANDriverKeys}

\* Configuration mappings handed to from_config.
ConfigKeys == {"forecast_steps", "in_channels", "out_channels"}

Configs == UNION {[K -> 1 .. MaxCfgVal] : K \in SUBSET ConfigKeys}

\* NowcastingGAN(forecast_steps=.., grid_lambda=.., num_samples=..)
GanConstruct ==
  \E kwargs \in GANKwargs :
    LET r == GANInit(kwargs)
    IN  /\ gan' = IF r.kind = "return" THEN r.obj ELSE gan
        /\ gout' = GOut("__init__", r.kind, r.exc, -1, "", 0, NoLogs, {},
                        IF r.kind = "return" THEN "NowcastingGAN" ELSE "",
                        NoStubs)
        /\ UNCHANGED lstmVars

\* NowcastingGAN.from_config(config)
GanFromConfig ==
  \E config \in Configs :
    LET r == GANFromConfig(config)
    IN  /\ gan' = IF r.kind = "return" THEN r.obj ELSE gan
        /\ gout' = GOut("from_config", r.kind, r.exc, -1, "", 0, NoLogs, {},
                        IF r.kind = "return" THEN "NowcastingGAN" ELSE "",
                        NoStubs)
        /\ UNCHANGED lstmVars

\* Groups of foreign names a caller assigns together.
GANPatches ==
  {{"b1", "b2", "generator", "discriminator"}, {"lr_method"}, {"lr_epochs"},
   {"visualize_step"}}

\* The caller assigns, on the constructed module, names the methods read but
\* the class never defines (model.lr_method = "cosine").
GanSetAttr ==
  /\ gan.built
  /\ \E names \in GANPatches, m \in LrMethods :
       /\ gan' = [gan EXCEPT !.attrs = @ \cup names,
                             !.lr_method = IF "lr_method" \in names THEN m ELSE @]
       /\ gout' = GOut("setattr", "return", "", -1, "", 0, NoLogs, {}, "None",
                       NoStubs)
  /\ UNCHANGED lstmVars

\* model.training_step(batch, batch_idx, optimizer_idx)
GanTrainingStep ==
  /\ gan.built
  /\ \E idx \in OptimizerIdxs, s \in LossVals, t \in LossVals, g \in LossVals :
       /\ gout' = [TrainingStepOutcome(gan, idx, s, t, g)
                     EXCEPT !.prev = gout.phase]
       /\ gan' = TrainingStepSelf(gan, idx)
  /\ UNCHANGED lstmVars

\* model.configure_optimizers()
GanConfigureOptimizers ==
  /\ gan.built
  /\ gout' = ConfigureOptimizersOutcome(gan)
  /\ UNCHANGED <<gan, lstmVars>>

NextGAN ==
  \/ GanConstruct
  \/ GanFromConfig
  \/ GanSetAttr
  \/ GanTrainingStep
  \/ GanConfigureOptimizers

(***************************************************************************)
(* EncoderDecoderConvLSTM: constructor and from_config                     *)
(***************************************************************************)
LSTMParams ==
  {"hidden_dim", "input_channels", "out_channels", "forecast_steps", "lr",
   "make_vis", "loss", "pretrained"}

\* Strings the constructor's assert lists.
RecognizedLosses == {"mse", "bce", "binary_crossentropy", "crossentropy", "focal"}

\* Sub-networks the constructor creates after resolving the loss.
LSTMSubmodules ==
  {"encoder_1_convlstm", "encoder_2_convlstm", "decoder_1_convlstm",
   "decoder_2_convlstm", "decoder_CNN"}

NoLSTM ==
  [built |-> FALSE, forecast_steps |-> 0, out_channels |-> 0, criterion |-> ""]

LInitRaise(exc) ==
  [kind |-> "raise", exc |-> exc, obj |-> NoLSTM, created |-> {}]

\* The criterion a recognized loss string resolves to.
ResolveLoss(loss) ==
  IF loss = "mse" THEN "mse_loss"
  ELSE IF loss \in {"bce", "binary_crossentropy", "crossentropy"} THEN "nll_loss"
  ELSE IF loss \in {"focal"} THEN "FocalLoss"
  ELSE "unrecognized"

\* `assert loss in [...]`: raises unless the interpreter strips asserts (-O).
AssertFails(loss, optimized) == ~optimized /\ loss \notin RecognizedLosses

\* EncoderDecoderConvLSTM(**kwargs, loss=loss).  loss = "Module" stands for an
\* instance of torch.nn.Module.
LSTMInit(kwargs, loss, optimized) ==
  IF ~(DOMAIN kwargs \subseteq LSTMParams)
  THEN LInitRaise("TypeError")
  ELSE IF loss # "Module" /\ AssertFails(loss, optimized)
  THEN LInitRaise("AssertionError")
  ELSE IF loss # "Module" /\ ResolveLoss(loss) = "unrecognized"
  THEN LInitRaise("ValueError")
  ELSE [kind |-> "return", exc |-> "",
        obj |-> [built |-> TRUE,
                 forecast_steps |-> Arg(kwargs, "forecast_steps", 48),
                 out_channels |-> Arg(kwargs, "out_channels", 1),
                 criterion |-> IF loss = "Module" THEN "Module"
                               ELSE ResolveLoss(loss)],
        created |-> LSTMSubmodules]

\* Keyword arguments from_config passes; lr is counted in units of 0.001.
LSTMFromConfigKwargs(config) ==
  [hidden_dim |-> Get(config, "num_hidden", 64),
   input_channels |-> Get(config, "in_channels", 12),
   out_channels |-> Get(config, "out_channels", 1),
   forecast_steps |-> Get(config, "forecast_steps", 1),
   lr |-> Get(config, "lr", 1)]

LSTMFromConfig(config, optimized) ==
  LSTMInit(LSTMFromConfigKwargs(config), "mse", optimized)

(***************************************************************************)
(* EncoderDecoderConvLSTM: recurrent cells and tensors                     *)
(***************************************************************************)
HiddenVals == 0 .. MaxHidden

\* ConvLSTMCell.forward(input_tensor, cur_state=[h, c]) -> (h_next, c_next),
\* abstracted to arithmetic modulo MaxHidden + 1.
CellC(input, h, c) == (c + input + 1) % (MaxHidden + 1)
CellH(input, h, c) == (h + CellC(input, h, c)) % (MaxHidden + 1)

\* ConvLSTMCell.init_hidden(batch_size, image_size): a zero (h, c) pair.
InitHidden == <<0, 0>>

\* Shape of a two-axis tensor (the batch and spatial axes are left out).
Dim1(a) == Len(a)
Dim2(a) == Len(a[1])

\* Tensors of shape [d1, d2] over the pixel values.
PixelVals == {0, 1}
Tensors(d1, d2) == [1 .. d1 -> [1 .. d2 -> PixelVals]]

\* torch.moveaxis(y_hat, 2, 1): exchanges the channel and the time axis.
MoveAxis(a) == [j \in 1 .. Dim2(a) |-> [i \in 1 .. Dim1(a) |-> a[i][j]]]

\* Broadcasting of one axis: equal sizes, or one of them is 1.
Broadcastable(m, n) == m = n \/ m = 1 \/ n = 1
Bmax(m, n) == IF m > n THEN m ELSE n
Bidx(i, m) == IF m = 1 THEN 1 ELSE i

RECURSIVE SumSeq(_)
SumSeq(q) == IF q = <<>> THEN 0 ELSE Head(q) + SumSeq(Tail(q))

\* F.mse_loss(a, b) with reduction 'mean' on two-axis tensors: the sum of the
\* squared differences over the broadcast shape and the number of elements,
\* or an error when the shapes do not broadcast.
MseLoss(a, b) ==
  IF ~(Broadcastable(Dim1(a), Dim1(b)) /\ Broadcastable(Dim2(a), Dim2(b)))
  THEN [ok |-> FALSE, sum |-> 0, n |-> 1]
  ELSE LET n1 == Bmax(Dim1(a), Dim1(b))
           n2 == Bmax(Dim2(a), Dim2(b))
           d(i, j) == a[Bidx(i, Dim1(a))][Bidx(j, Dim2(a))]
                      - b[Bidx(i, Dim1(b))][Bidx(j, Dim2(b))]
       IN  [ok |-> TRUE,
            sum |-> SumSeq([i \in 1 .. n1 |->
                             SumSeq([j \in 1 .. n2 |-> d(i, j) * d(i, j)])]),
            n |-> n1 * n2]

(***************************************************************************)
(* EncoderDecoderConvLSTM: call frames                                     *)
(***************************************************************************)
NoLoss == [ok |-> TRUE, sum |-> 0, n |-> 1]

\* The frame of the call in progress: the locals of forward / autoencoder and
\* of the training or validation step that called forward.  `after` is a
\* history field: "forward" when the call before this one was a forward call
\* that returned.
IdleFrame ==
  [entry |-> "idle", pc |-> "idle", after |-> "", x |-> <<>>, seq_len |-> 0,
   future_step |-> 0, hidden_state |-> "None", t |-> 0,
   h_t |-> 0, c_t |-> 0, h_t2 |-> 0, c_t2 |-> 0,
   h_t3 |-> 0, c_t3 |-> 0, h_t4 |-> 0, c_t4 |-> 0,
   encoder_vector |-> 0, outputs |-> <<>>,
   y_hat |-> <<>>, y |-> <<>>, loss |-> NoLoss, frame_losses |-> <<>>,
   exc |-> ""]

\* Outcome record of an EncoderDecoderConvLSTM call.
LOut(op, kind, exc, seq_len, future_step, shape, created, loss) ==
  [op |-> op, kind |-> kind, exc |-> exc, seq_len |-> seq_len,
   future_step |-> future_step, shape |-> shape, created |-> created,
   loss |-> loss]

LOutNone == LOut("none", "none", "", 0, 0, <<>>, {}, "")

\* Faulty variant: a hidden_state argument, when given, replaces the zero states.
InitStateCarried(hidden_state) ==
  IF hidden_state = "None" THEN InitHidden ELSE <<1, 1>>

\* The (h, c) pair a cell starts a forward pass with: forward calls
\* init_hidden for each cell and never reads its hidden_state argument.
InitState(hidden_state) == InitHidden

\* forward(x, future_seq, hidden_state) up to the call of autoencoder.
ForwardFrame(entry, x, future_seq, hidden_state) ==
  [IdleFrame EXCEPT
     !.entry = entry, !.pc = "encode", !.after = IF entry = "forward" /\ lout.op = "forward" /\ lout.kind = "return"
               THEN "forward" ELSE "",
     !.x = x, !.seq_len = Len(x),
     !.future_step = future_seq, !.hidden_state = hidden_state, !.t = 0,
     !.h_t = InitState(hidden_state)[1], !.c_t = InitState(hidden_state)[2],
     !.h_t2 = InitState(hidden_state)[1], !.c_t2 = InitState(hidden_state)[2],
     !.h_t3 = InitState(hidden_state)[1], !.c_t3 = InitState(hidden_state)[2],
     !.h_t4 = InitState(hidden_state)[1], !.c_t4 = InitState(hidden_state)[2]]

\* One iteration of the encoder loop.
EncodeStep(f) ==
  LET h1 == CellH(f.x[f.t + 1], f.h_t, f.c_t)
      c1 == CellC(f.x[f.t + 1], f.h_t, f.c_t)
  IN  [f EXCEPT !.h_t = h1, !.c_t = c1,
                !.h_t2 = CellH(h1, f.h_t2, f.c_t2),
                !.c_t2 = CellC(h1, f.h_t2, f.c_t2),
                !.t = f.t + 1]

\* Faulty variant: every decoder step reads the encoder's vector again (the
\* step's output is not fed back).
DecodeStepNoFeedback(f) ==
  LET h3 == CellH(f.encoder_vector, f.h_t3, f.c_t3)
      c3 == CellC(f.encoder_vector, f.h_t3, f.c_t3)
      h4 == CellH(h3, f.h_t4, f.c_t4)
      c4 == CellC(h3, f.h_t4, f.c_t4)
  IN  [f EXCEPT !.h_t3 = h3, !.c_t3 = c3, !.h_t4 = h4, !.c_t4 = c4,
                !.outputs = Append(f.outputs, h4),
                !.t = f.t + 1]

\* One iteration of the decoder loop.
DecodeStep(f) ==
  LET h3 == CellH(f.encoder_vector, f.h_t3, f.c_t3)
      c3 == CellC(f.encoder_vector, f.h_t3, f.c_t3)
      h4 == CellH(h3, f.h_t4, f.c_t4)
      c4 == CellC(h3, f.h_t4, f.c_t4)
  IN  [f EXCEPT !.h_t3 = h3, !.c_t3 = c3, !.h_t4 = h4, !.c_t4 = c4,
                !.encoder_vector = h4,
                !.outputs = Append(f.outputs, h4),
                !.t = f.t + 1]

\* Faulty variant: stacking an empty list yields an empty tensor.
StackFailsNever(outputs) == FALSE

\* torch.stack(outputs, 1) raises on an empty list.
StackFails(outputs) == outputs = <<>>

(***************************************************************************)
(* EncoderDecoderConvLSTM: loss and per-frame losses                       *)
(***************************************************************************)
\* self.criterion(a, b): mse_loss is computed; any other criterion is opaque
\* and yields the scalar v.
Criterion(self, a, b, v) ==
  IF self.criterion = "mse_loss" THEN MseLoss(a, b)
  ELSE [ok |-> TRUE, sum |-> v, n |-> 1]

\* y[:, f, :, :, :]: index f of the target's first non-batch axis (a row
\* tensor), or <<>> when f is out of range (IndexError).
FrameTarget(y, f) ==
  IF f + 1 > Dim1(y) THEN <<>> ELSE <<y[f + 1]>>

\* criterion(y_hat[:, f], y[:, f]) after y_hat = torch.moveaxis(y_hat, 2, 1).
FrameLoss(self, y_hat, y, f, v) ==
  IF FrameTarget(y, f) = <<>>
  THEN [ok |-> FALSE, sum |-> 0, n |-> 1]
  ELSE Criterion(self, <<MoveAxis(y_hat)[f + 1]>>, FrameTarget(y, f), v)

\* The per-frame loop over range(self.forecast_steps).
FrameLosses(self, y_hat, y, vs) ==
  [k \in 1 .. self.forecast_steps |-> FrameLoss(self, y_hat, y, k - 1, vs[k + 1])]

\* The exception the per-frame loop ends with, if any.
FrameLoopExc(y, losses) ==
  IF \A k \in DOMAIN losses : losses[k].ok THEN ""
  ELSE LET k == CHOOSE k \in DOMAIN losses :
                  ~losses[k].ok /\ \A m \in 1 .. k - 1 : losses[m].ok
       IN  IF k > Dim1(y) THEN "IndexError" ELSE "RuntimeError"

(***************************************************************************)
(* EncoderDecoderConvLSTM: actions                                         *)
(***************************************************************************)
LossArgs == RecognizedLosses \cup {"l1", "Module"}
FrameVals == {0, 1}
Inputs == UNION {[1 .. n -> FrameVals] : n \in 0 .. MaxTin}
HiddenArgs == {"None", "supplied"}

\* Keyword arguments the driver constructs the model with.
LSTMKwargs ==
  {[forecast_steps |-> fs, out_channels |-> oc] :
     fs \in 0 .. MaxSteps, oc \in 1 .. MaxChannels}

\* Number of non-zero pixels of a tensor.
Ones(a) == SumSeq([i \in 1 .. Dim1(a) |-> SumSeq(a[i])])

\* Targets of a batch: laid out like the prediction [channel, time] or as a
\* sequence tensor [time, channel]; all zero or with a single non-zero pixel.
Targets(c, t) ==
  {y \in Tensors(c, t) \cup Tensors(t, c) : Ones(y) <= 1}

\* Pixel values of the prediction that the criterion reads.
Predictions(self, c, t) ==
  IF self.criterion = "mse_loss" THEN Tensors(c, t)
  ELSE {[i \in 1 .. c |-> [j \in 1 .. t |-> 0]]}

\* Scalars an opaque criterion returns for the primary loss (index 1) and
\* for each frame; mse_loss is computed and takes none.
OpaqueLosses(self) ==
  IF self.criterion = "mse_loss"
  THEN {[k \in 1 .. self.forecast_steps + 1 |-> 0]}
  ELSE [1 .. self.forecast_steps + 1 -> PixelVals]

\* EncoderDecoderConvLSTM(forecast_steps=.., out_channels=.., loss=..)
LstmConstruct ==
  /\ fr.entry = "idle"
  /\ \E kwargs \in LSTMKwargs, loss \in LossArgs, optimized \in BOOLEAN :
       LET r == LSTMInit(kwargs, loss, optimized)
       IN  /\ lstm' = IF r.kind = "return" THEN r.obj ELSE lstm
           /\ lout' = LOut("__init__", r.kind, r.exc, 0, 0, <<>>, r.created, loss)
  /\ UNCHANGED <<fr, ganVars>>

\* EncoderDecoderConvLSTM.from_config(config)
LstmFromConfig ==
  /\ fr.entry = "idle"
  /\ \E config \in Configs, optimized \in BOOLEAN :
       LET r == LSTMFromConfig(config, optimized)
       IN  /\ lstm' = IF r.kind = "return" THEN r.obj ELSE lstm
           /\ lout' = LOut("from_config", r.kind, r.exc, 0, 0, <<>>, r.created,
                           "mse")
  /\ UNCHANGED <<fr, ganVars>>

\* model(x, future_seq, hidden_state) from the driver; future_seq defaults to 0.
LstmForward ==
  /\ fr.entry = "idle" /\ lstm.built
  /\ \E x \in Inputs, given \in BOOLEAN, future_seq \in 0 .. MaxSteps,
        hidden_state \in HiddenArgs :
       fr' = ForwardFrame("forward", x, IF given THEN future_seq ELSE 0,
                          hidden_state)
  /\ lout' = LOutNone
  /\ UNCHANGED <<lstm, ganVars>>

\* training_step(batch, batch_idx) up to y_hat = self(x, self.forecast_steps)
LstmTrainingStep ==
  /\ fr.entry = "idle" /\ lstm.built
  /\ \E x \in Inputs :
       fr' = ForwardFrame("training_step", x, lstm.forecast_steps, "None")
  /\ lout' = LOutNone
  /\ UNCHANGED <<lstm, ganVars>>

\* validation_step(batch, batch_idx) up to y_hat = self(x, self.forecast_steps)
LstmValidationStep ==
  /\ fr.entry = "idle" /\ lstm.built
  /\ \E x \in Inputs :
       fr' = ForwardFrame("validation_step", x, lstm.forecast_steps, "None")
  /\ lout' = LOutNone
  /\ UNCHANGED <<lstm, ganVars>>

\* autoencoder: one pass of the encoder loop
LstmEncode ==
  /\ fr.pc = "encode" /\ fr.t < fr.seq_len
  /\ fr' = EncodeStep(fr)
  /\ UNCHANGED <<lstm, lout, ganVars>>

\* autoencoder: encoder_vector = h_t2
LstmEncoderVector ==
  /\ fr.pc = "encode" /\ fr.t = fr.seq_len
  /\ fr' = [fr EXCEPT !.encoder_vector = fr.h_t2, !.pc = "decode", !.t = 0]
  /\ UNCHANGED <<lstm, lout, ganVars>>

\* autoencoder: one pass of the decoder loop
LstmDecode ==
  /\ fr.pc = "decode" /\ fr.t < fr.future_step
  /\ fr' = DecodeStep(fr)
  /\ UNCHANGED <<lstm, lout, ganVars>>

\* autoencoder: torch.stack, permute, decoder_CNN, sigmoid and the return of
\* forward, to the driver or into the step that called it (forward's locals
\* end with its frame).
LstmStack ==
  /\ fr.pc = "decode" /\ fr.t = fr.future_step
  /\ IF StackFails(fr.outputs)
     THEN /\ lout' = LOut(fr.entry, "raise", "RuntimeError", fr.seq_len,
                          fr.future_step, <<>>, {}, "")
          /\ fr' = IdleFrame
     ELSE IF fr.entry = "forward"
     THEN /\ lout' = LOut(fr.entry, "return", "", fr.seq_len, fr.future_step,
                          <<lstm.out_channels, Len(fr.outputs)>>, {}, "")
          /\ fr' = IdleFrame
     ELSE /\ fr' = [IdleFrame EXCEPT !.entry = fr.entry, !.pc = "loss",
                                     !.future_step = fr.future_step]
          /\ lout' = lout
  /\ UNCHANGED <<lstm, ganVars>>

\* training_step / validation_step: the primary loss and the per-frame loop.
\* The pixel values of the prediction and the batch's target are drawn here,
\* where they are first read.
LstmLoss ==
  /\ fr.pc = "loss"
  /\ \E y \in Targets(lstm.out_channels, fr.future_step),
        y_hat \in Predictions(lstm, lstm.out_channels, fr.future_step),
        vs \in OpaqueLosses(lstm) :
       LET loss == Criterion(lstm, y_hat, y, vs[1])
           losses == FrameLosses(lstm, y_hat, y, vs)
       IN  /\ fr' = [fr EXCEPT
                       !.pc = "done", !.y_hat = y_hat, !.y = y, !.loss = loss,
                       !.frame_losses = IF loss.ok THEN losses ELSE <<>>,
                       !.exc = IF ~loss.ok THEN "RuntimeError"
                               ELSE FrameLoopExc(y, losses)]
  /\ UNCHANGED <<lstm, lout, ganVars>>

\* training_step / validation_step: return loss, or the exception propagates.
LstmStepReturn ==
  /\ fr.pc = "done"
  /\ lout' = LOut(fr.entry, IF fr.exc = "" THEN "return" ELSE "raise", fr.exc,
                  0, fr.future_step, <<>>, {}, "")
  /\ fr' = IdleFrame
  /\ UNCHANGED <<lstm, ganVars>>

NextLSTM ==
  \/ LstmConstruct
  \/ LstmFromConfig
  \/ LstmForward
  \/ LstmTrainingStep
  \/ LstmValidationStep
  \/ LstmEncode
  \/ LstmEncoderVector
  \/ LstmDecode
  \/ LstmStack
  \/ LstmLoss
  \/ LstmStepReturn

(***************************************************************************)
(* Specifications                                                          *)
(***************************************************************************)
Init ==
  /\ gan = NoGAN
  /\ gout = GOutNone
  /\ lstm = NoLSTM
  /\ fr = IdleFrame
  /\ lout = LOutNone

Next == NextGAN \/ NextLSTM

\* The two model classes share no state: each has a specification of its
\* own, and Spec is their interleaving.
Spec == Init /\ [][Next]_vars

SpecGAN == Init /\ [][NextGAN]_vars

SpecLSTM == Init /\ [][NextLSTM]_vars

(***************************************************************************)
(* Properties of NowcastingGAN                                              *)
(***************************************************************************)
\* The stubbed outputs of the last training_step call.
StubS == gout.stubs[1]
StubT == gout.stubs[2]
StubG == gout.stubs[3]

\* C1: every training_step call with optimizer_idx = 0 returns, and reports
\* as train/g_loss, spatial + temporal - grid_lambda * grid.
C1_GeneratorLossReturned ==
  (gout.op = "training_step" /\ gout.idx = 0) =>
     /\ gout.kind = "return"
     /\ gout.loss = StubS + StubT - gan.grid_lambda * StubG
     /\ <<"train/g_loss", gout.loss>> \in gout.logs

C4_UnknownPolicyFailsFast ==
  (/\ gout.op = "configure_optimizers"
   /\ "lr_method" \in gan.attrs
   /\ gan.lr_method \notin {"plateau", "cosine"}) =>
     (gout.kind = "raise" /\ gout.created = {})

\* C5: configure_optimizers on a constructed model with policy "plateau" or
\* "cosine" returns the two optimizers with two schedulers of that kind.
C5_ConstructedModelConfigures ==
  (/\ gout.op = "configure_optimizers"
   /\ "lr_method" \in gan.attrs
   /\ gan.lr_method \in {"plateau", "cosine"}) =>
     /\ gout.kind = "return"
     /\ gout.created = {"opt_g", "opt_d", "g_scheduler", "d_scheduler"}
     /\ gout.value = IF gan.lr_method = "plateau"
                     THEN "optimizers+ReduceLROnPlateau"
                     ELSE "optimizers+CosineAnnealingLR"

(***************************************************************************)
(* Properties of EncoderDecoderConvLSTM                                     *)
(***************************************************************************)
\* C6: the constructor, given a loss string outside the recognized ones,
\* raises ValueError with no sub-network created; given a recognized string
\* or a loss module it returns a model whose criterion is the resolved loss.
C6_UnrecognizedLossValueError ==
  lout.op = "__init__" =>
     IF lout.loss \in RecognizedLosses \cup {"Module"}
     THEN /\ lout.kind = "return"
          /\ lstm.criterion = IF lout.loss = "Module" THEN "Module"
                              ELSE ResolveLoss(lout.loss)
     ELSE lout.kind = "raise" /\ lout.exc = "ValueError" /\ lout.created = {}

\* C7: a forward call with forecast horizon 0 ends in the error torch.stack
\* raises on the empty output list, whatever the input length.
C7_ZeroHorizonFails ==
  (lout.op = "forward" /\ lout.future_step = 0) =>
     (lout.kind = "raise" /\ lout.exc = "RuntimeError")

\* C7 witness: a forward call over a non-empty input with horizon 0 ended.
C7_Witness ==
  lout.op = "forward" /\ lout.future_step = 0 /\ lout.seq_len = MaxTin
  /\ lout.kind = "raise"

\* C8: from_config of either model returns a constructed model.
C8_FromConfigConstructs ==
  /\ gout.op = "from_config" => (gout.kind = "return" /\ gan.built)
  /\ lout.op = "from_config" => (lout.kind = "return" /\ lstm.built)

AllZero(f) ==
  /\ f.h_t = 0 /\ f.c_t = 0 /\ f.h_t2 = 0 /\ f.c_t2 = 0
  /\ f.h_t3 = 0 /\ f.c_t3 = 0 /\ f.h_t4 = 0 /\ f.c_t4 = 0

\* C9: every call that enters forward starts with all four hidden/cell
\* pairs zero, and no step of a call changes a field of the model.
C9_FreshZeroStates ==
  [][/\ (fr.entry = "idle" /\ fr'.entry # "idle") => AllZero(fr')
     /\ (fr.entry # "idle" \/ fr'.entry # "idle") => lstm' = lstm]_vars

\* C9 witness: a forward call that follows a returned forward call, and is
\* handed a hidden_state, is at the start of its encoder loop.
C9_Witness ==
  /\ fr.entry = "forward" /\ fr.pc = "encode" /\ fr.t = 0
  /\ fr.after = "forward" /\ fr.hidden_state = "supplied" /\ AllZero(fr)

\* Sum of the per-frame loss sums of the step in progress.
FrameSum == SumSeq([k \in DOMAIN fr.frame_losses |-> fr.frame_losses[k].sum])

\* C10: with the mean-squared-error criterion, a training or validation step
\* whose primary loss was computed yields a loss for every frame, and the
\* per-frame losses average to the primary loss.
C10_FrameLossesAverage ==
  (fr.pc = "done" /\ lstm.criterion = "mse_loss" /\ fr.loss.ok) =>
     /\ fr.exc = ""
     /\ \A k \in DOMAIN fr.frame_losses :
          fr.frame_losses[k].n = fr.frame_losses[1].n
     /\ FrameSum * fr.loss.n
          = fr.loss.sum * fr.frame_losses[1].n * lstm.forecast_steps

\* The input decoder cell 1 reads at the decode step the frame is about to
\* take: encoder cell 2's hidden state at step 0, decoder cell 2's hidden
\* state of the step before at every later step.
DecoderInput(f) == IF f.t = 0 THEN f.h_t2 ELSE f.h_t4

\* C11: in autoencoder, no output is collected while encoding; each decode
\* step s feeds decoder cell 1 with encoder cell 2's final hidden state (the
\* zero initial state when the input is empty) for s = 0 and with decoder
\* cell 2's hidden state of step s-1 for s > 0, feeds decoder cell 2 with
\* decoder cell 1's new hidden state, and appends decoder cell 2's new
\* hidden state, so that the output holds one state per step in step order.
C11_DecoderFeedback ==
  [][/\ fr'.pc = "encode" => fr'.outputs = <<>>
     /\ (fr.pc = "encode" /\ fr'.pc = "decode") =>
          /\ fr'.outputs = <<>> /\ fr'.t = 0 /\ fr'.h_t2 = fr.h_t2
          /\ fr.seq_len = 0 => fr.h_t2 = 0
     /\ (fr.pc = "decode" /\ fr'.pc = "decode") =>
          /\ fr'.t = fr.t + 1 /\ fr'.t <= fr.future_step
          /\ fr'.h_t3 = CellH(DecoderInput(fr), fr.h_t3, fr.c_t3)
          /\ fr'.c_t3 = CellC(DecoderInput(fr), fr.h_t3, fr.c_t3)
          /\ fr'.h_t4 = CellH(fr'.h_t3, fr.h_t4, fr.c_t4)
          /\ fr'.c_t4 = CellC(fr'.h_t3, fr.h_t4, fr.c_t4)
          /\ fr'.h_t2 = fr.h_t2 /\ fr'.c_t2 = fr.c_t2
          /\ fr'.outputs = Append(fr.outputs, fr'.h_t4)
          /\ Len(fr'.outputs) = fr'.t]_vars

\* C11 witness: the decoder loop of a call over a non-empty input has run
\* two steps or more to its end, and its second step read an input other
\* than the encoder's vector.
C11_Witness ==
  /\ fr.pc = "decode" /\ fr.t = fr.future_step /\ fr.future_step >= 2
  /\ fr.seq_len >= 1 /\ Len(fr.outputs) = fr.future_step
  /\ fr.outputs[1] # fr.h_t2

====
